---- MODULE Spec2Model ----
\* Verification model of the windows-ai-agent trust boundary:
\*   tools/server.py      ToolServer   (registry, validation, confirmation gate,
\*                                      worker pool with timeout, history)
\*   orchestrator/agent.py AgentOrchestrator.process (the turn loop)
\*   core/types.py        PermissionTier, ExecutionStatus, ToolRequest, ToolResult
EXTENDS Integers, Sequences, FiniteSets, TLC

\* ---------------------------------------------------------------- bounds
\* Number of ToolRequest objects the callers of Spec create.
MaxRequests == 1
\* Number of ToolRequest objects the callers of PoolSpec create.
MaxPoolRequests == 2

\* ToolServer(max_workers=...): size of the handler pool in the runs explored
\* (the constructor's default is 4).
max_workers == 1
\* ToolServer(timeout=...), seconds.
timeout == 30
\* AgentOrchestrator(max_iterations=...): the iteration budget of process in the
\* runs explored (the constructor's default is 10).
max_iterations == 2
\* process, line 163: the number of conversation messages sent to the model.
window == 20

\* ------------------------------------------------------- core/types.py
\* PermissionTier members, in declaration order.
PermissionTier == {"OBSERVER", "OPERATOR", "ADMINISTRATOR", "SYSTEM"}

\* PermissionTier.X.value is a Python str; a str is modelled as the sequence of
\* its letters' alphabet positions (a = 1 .. z = 26), so that str comparison can
\* be computed as Python computes it.
TierValue(tier) ==
    CASE tier = "OBSERVER"      -> <<15, 2, 19, 5, 18, 22, 5, 18>>
      [] tier = "OPERATOR"      -> <<15, 16, 5, 18, 1, 20, 15, 18>>
      [] tier = "ADMINISTRATOR" -> <<1, 4, 13, 9, 14, 9, 19, 20, 18, 1, 20, 15, 18>>
      [] tier = "SYSTEM"        -> <<19, 25, 19, 20, 5, 13>>

\* Python's  a > b  on two str: the first differing character decides; when one
\* is a prefix of the other the longer one is greater.
RECURSIVE StrGreaterFrom(_, _, _)
StrGreaterFrom(a, b, i) ==
    IF i > Len(a) THEN FALSE
    ELSE IF i > Len(b) THEN TRUE
    ELSE IF a[i] # b[i] THEN a[i] > b[i]
    ELSE StrGreaterFrom(a, b, i + 1)

StrGreater(a, b) == StrGreaterFrom(a, b, 1)

\* The order the permission tiers are documented to have:
\* observer < operator < administrator < system.
TierRank(tier) ==
    CASE tier = "OBSERVER"      -> 0
      [] tier = "OPERATOR"      -> 1
      [] tier = "ADMINISTRATOR" -> 2
      [] tier = "SYSTEM"        -> 3

\* ExecutionStatus members that ToolResult.status takes.
ExecutionStatus ==
    {"pending", "running", "success", "failed", "cancelled", "timeout",
     "permission_denied", "confirmation_required"}

\* Runtime types of argument values (type(value).__name__).
ValueTypes == {"str", "int", "float", "bool", "list", "dict"}

None == "None"

\* ------------------------------------------------------- the tool catalog
\* The tool name register_tool / enable_tool / disable_tool are called with in
\* the runs explored, and a name that is never registered.
ToolNames == {"file_delete"}
UnknownName == "ghost_tool"

\* ToolParameter(name, type, required, default)
Param(name, type, required, default) ==
    [name |-> name, type |-> type, required |-> required, default |-> default]

\* Parameter lists as create_all_tools declares them for file_read / file_delete:
\* a required string "path" and an optional second parameter with a default.
ParametersOf(name) ==
    IF name = "file_delete"
    THEN << Param("path", "string", TRUE, None), Param("recursive", "boolean", FALSE, "bool") >>
    ELSE << Param("path", "string", TRUE, None), Param("encoding", "string", FALSE, "str") >>

\* ToolSchema(name, parameters, requires_confirmation, permission_tier)
Schema(name, requires_confirmation, permission_tier) ==
    [name |-> name,
     parameters |-> ParametersOf(name),
     requires_confirmation |-> requires_confirmation,
     permission_tier |-> permission_tier]

\* The schemas register_tool is called with: any tier, with and without the
\* confirmation flag.
Schemas ==
    { Schema(n, c, t) : n \in ToolNames, c \in BOOLEAN, t \in PermissionTier }

\* The catalog tools/registry.py builds (get_tool_server), cut down to one tool
\* without and one with requires_confirmation; every tool of registry.py has
\* the default tier OPERATOR.
DefaultCatalog ==
    [n \in {"file_read", "file_delete"} |->
        [schema |-> Schema(n, n = "file_delete", "OPERATOR"), enabled |-> TRUE]]

\* Argument mappings of the requests explored.
EmptyArgs == [k \in {} |-> None]
ArgumentSets ==
    { EmptyArgs, [path |-> "str"], [path |-> "int"], [recursive |-> "str"] }

\* Outcomes of one handler run: a dict with an "error" key, any other dict, a
\* value that is no dict, or a fault raised by the handler: an Exception, the
\* builtin TimeoutError, or a BaseException that is no Exception (SystemExit).
HandlerOutcomes ==
    {"error_dict", "result_dict", "plain_value", "exception", "timeout_error",
     "base_exception"}

\* ------------------------------------------------------------- the state
VARIABLES
    tools,              \* ToolServer._tools: name -> RegisteredTool(schema, enabled)
    permission_tier,    \* ToolServer._permission_tier
    work_queue,         \* ThreadPoolExecutor: submitted work items not yet picked up
    running,            \* request ids whose handler a worker thread is running
    futures,            \* request id -> state of the Future submit() returned
    execution_history,  \* ToolServer._execution_history
    requests,           \* request id -> the ToolRequest object
    calls,              \* request id -> position of the execute() call on it
    results,            \* request id -> the ToolResult execute() returned last
    attempts,           \* request id -> number of execute() calls made with it
    invoked,            \* request id -> number of times its handler was entered
    execution_time_ms,  \* request id -> execution_time_ms of the ToolResult in results
    pc,                 \* AgentOrchestrator.process: where the call stands
    iterations,         \* process: the local counter `iterations`
    llm_calls,          \* number of self.llm.chat calls process has made
    messages,           \* process: the local list `messages` sent to the model
    conversation,       \* AgentOrchestrator.conversation.messages
    tool_request,       \* process: request id of the local `tool_request` (0: none)
    final_response,     \* process: the local `final_response`
    confirmation_handler, \* AgentOrchestrator._confirmation_handler is set
    approvals,          \* request id -> the answers the confirmation handler gave
    raised,             \* what raised the exception that left process ("none": nothing)
    on_event,           \* AgentOrchestrator._on_thinking, _on_tool_call, _on_tool_result, _on_response
    last_reply,         \* process: how the last self.llm.chat call ended
    llm_tools,          \* LLMManager._tools: the schemas sent to the model with every chat
    chat_content,       \* OllamaClient.chat: the local `content`, the text of the reply
    chat_tool_calls     \* OllamaClient.chat: the local list `tool_calls`

serverVars ==
    << tools, permission_tier, work_queue, running, futures,
       execution_history, requests, calls, results, attempts, invoked,
       execution_time_ms >>

agentVars ==
    << pc, iterations, llm_calls, messages, conversation, tool_request,
       final_response, confirmation_handler, approvals, raised, on_event,
       last_reply, llm_tools,
                    chat_content, chat_tool_calls >>

vars == << serverVars, agentVars >>

\* ------------------------------------------------ tools/server.py: pure parts
\* ToolResult(request_id, status, result, error)
\* A text (an error message, a payload) is the sequence of the pieces its
\* f-string joins; NoError stands for error=None, NoPayload for result=None.
ToolResult(request_id, status, result, error) ==
    [request_id |-> request_id, status |-> status, result |-> result, error |-> error,
     side_effects |-> << >>, warnings |-> << >>]

NoError == << >>

NoPayload == << >>

\* No ToolResult yet (execute() has not returned for the request).
NoResult == ToolResult(0, "none", NoPayload, NoError)

\* ToolServer._validate_type: isinstance(value, type_map[expected_type]);
\* bool is a subclass of int in Python.
IsInstance(value, expected_type) ==
    CASE expected_type = "string"  -> value = "str"
      [] expected_type = "integer" -> value \in {"int", "bool"}
      [] expected_type = "number"  -> value \in {"int", "bool", "float"}
      [] expected_type = "boolean" -> value = "bool"
      [] expected_type = "array"   -> value = "list"
      [] expected_type = "object"  -> value = "dict"

TypeMapKeys == {"string", "integer", "number", "boolean", "array", "object"}

validate_type(value, expected_type) ==
    IF expected_type \notin TypeMapKeys THEN TRUE
    ELSE IsInstance(value, expected_type)

SetMin(S) == CHOOSE x \in S : \A y \in S : x <= y

\* A variant of line 91 whose message leaves the name out.
unknown_tool_error_without_name(request) == <<"Unknown tool">>

\* validate_request, line 91: f"Unknown tool: {request.tool}"
unknown_tool_error(request) == <<"Unknown tool: ", request.tool>>

\* A variant of validate_request that checks the argument types (lines 111-115)
\* before the required parameters (lines 105-108).
validate_request_types_first(request) ==
    IF request.tool \notin DOMAIN tools
    THEN [valid |-> FALSE, error |-> unknown_tool_error(request)]
    ELSE LET tool == tools[request.tool]
             params == tool.schema.parameters
             missing == { i \in 1..Len(params) :
                            /\ params[i].required
                            /\ params[i].name \notin DOMAIN request.arguments
                            /\ params[i].default = None }
             mistyped == { i \in 1..Len(params) :
                            /\ params[i].name \in DOMAIN request.arguments
                            /\ ~validate_type(request.arguments[params[i].name],
                                               params[i].type) }
         IN  IF ~tool.enabled
             THEN [valid |-> FALSE, error |-> <<"Tool is disabled: ", request.tool>>]
             ELSE IF StrGreater(TierValue(tool.schema.permission_tier),
                                TierValue(permission_tier))
             THEN [valid |-> FALSE,
                   error |-> <<"Insufficient permissions for tool: ", request.tool>>]
             ELSE IF mistyped # {}
             THEN [valid |-> FALSE,
                   error |-> <<"Invalid type for ", params[SetMin(mistyped)].name,
                               ": expected ", params[SetMin(mistyped)].type>>]
             ELSE IF missing # {}
             THEN [valid |-> FALSE,
                   error |-> <<"Missing required parameter: ", params[SetMin(missing)].name>>]
             ELSE [valid |-> TRUE, error |-> NoError]

\* ToolServer.validate_request: (valid, error); an error message is the
\* sequence of the pieces the f-string joins.
validate_request(request) ==
    IF request.tool \notin DOMAIN tools
    THEN [valid |-> FALSE, error |-> unknown_tool_error(request)]
    ELSE LET tool == tools[request.tool]
             params == tool.schema.parameters
             missing == { i \in 1..Len(params) :
                            /\ params[i].required
                            /\ params[i].name \notin DOMAIN request.arguments
                            /\ params[i].default = None }
             mistyped == { i \in 1..Len(params) :
                            /\ params[i].name \in DOMAIN request.arguments
                            /\ ~validate_type(request.arguments[params[i].name],
                                               params[i].type) }
         IN  IF ~tool.enabled
             THEN [valid |-> FALSE, error |-> <<"Tool is disabled: ", request.tool>>]
             ELSE IF StrGreater(TierValue(tool.schema.permission_tier),
                                TierValue(permission_tier))
             THEN [valid |-> FALSE,
                   error |-> <<"Insufficient permissions for tool: ", request.tool>>]
             ELSE IF missing # {}
             THEN [valid |-> FALSE,
                   error |-> <<"Missing required parameter: ", params[SetMin(missing)].name>>]
             ELSE IF mistyped # {}
             THEN [valid |-> FALSE,
                   error |-> <<"Invalid type for ", params[SetMin(mistyped)].name,
                               ": expected ", params[SetMin(mistyped)].type>>]
             ELSE [valid |-> TRUE, error |-> NoError]

\* f with f[r] set to v, r added to its domain when new.
Put(f, r, v) == [x \in DOMAIN f \cup {r} |-> IF x = r THEN v ELSE f[x]]

Get(f, r, d) == IF r \in DOMAIN f THEN f[r] ELSE d

\* The values a handler returns in the runs explored, by name. A dict is given
\* by its entries, any other value by itself. The side-effect records are the
\* dicts handlers return: the keys of the second one of "moved_dict" and of
\* "rollback_data_dict" are those FileSystemController.move_file and write_file
\* return (filesystem.py lines 296-311, 420-427).
ReturnedValues ==
    {"error_dict", "error_result_dict", "result_dict", "moved_dict", "counted_dict",
     "rollback_data_dict", "untyped_effect_dict", "plain_value"}

Returned(outcome) ==
    CASE outcome = "error_dict" ->
             [dict |-> TRUE, entries |-> [error |-> <<"handler error">>]]
      [] outcome = "error_result_dict" ->
             [dict |-> TRUE,
              entries |-> [error |-> <<"handler error">>, result |-> <<"result entry">>,
                           warnings |-> <<"w1">>]]
      [] outcome = "result_dict" ->
             [dict |-> TRUE, entries |-> [result |-> <<"result entry">>]]
      [] outcome = "moved_dict" ->
             [dict |-> TRUE,
              entries |-> [result |-> <<"result entry">>,
                           side_effects |->
                               << [type |-> "file_deleted", path |-> "p", reversible |-> FALSE],
                                  [type |-> "file_created", path |-> "q"] >>,
                           warnings |-> <<"w1", "w2">>]]
      [] outcome = "counted_dict" ->
             [dict |-> TRUE,
              entries |-> [count |-> <<"3">>, side_effects |-> << [type |-> "process_started"] >>,
                           warnings |-> <<"w1">>]]
      [] outcome = "rollback_data_dict" ->
             [dict |-> TRUE,
              entries |-> [result |-> <<"result entry">>,
                           side_effects |->
                               << [type |-> "file_modified", path |-> "p", reversible |-> TRUE,
                                   rollback_data |-> "old"] >>]]
      [] outcome = "untyped_effect_dict" ->
             [dict |-> TRUE,
              entries |-> [result |-> <<"result entry">>,
                           side_effects |-> << [path |-> "p"] >>]]
      [] outcome = "plain_value" ->
             [dict |-> FALSE, value |-> <<"returned value">>]

\* SideEffect(**se) raises TypeError for a key that is no field of the dataclass
\* (core/types.py lines 145-152) and for a missing `type`, the one field without
\* a default.
side_effect_raises(se) ==
    \/ ~(DOMAIN se \subseteq {"type", "path", "data", "reversible", "rollback_action"})
    \/ "type" \notin DOMAIN se

\* SideEffect(**se): the fields given, the defaults for the others.
SideEffect(se) ==
    [type |-> se.type,
     path |-> IF "path" \in DOMAIN se THEN se.path ELSE None,
     data |-> IF "data" \in DOMAIN se THEN se.data ELSE None,
     reversible |-> IF "reversible" \in DOMAIN se THEN se.reversible ELSE TRUE,
     rollback_action |-> IF "rollback_action" \in DOMAIN se THEN se.rollback_action ELSE None]

\* ToolServer.execute, lines 194-197: the loop over result["side_effects"]
\* raises at the first record SideEffect(**se) refuses.
result_raises(value) ==
    /\ value.dict
    /\ "error" \notin DOMAIN value.entries
    /\ \E i \in DOMAIN Get(value.entries, "side_effects", << >>) :
           side_effect_raises(value.entries.side_effects[i])

\* ToolServer.execute, lines 184-213: the ToolResult built from the value the
\* handler returned, when no side-effect record raises.
result_of(request, value) ==
    IF value.dict
    THEN IF "error" \in DOMAIN value.entries
         THEN ToolResult(request.request_id, "failed", NoPayload, value.entries.error)
         ELSE [ToolResult(request.request_id, "success",
                          Get(value.entries, "result", value.entries), NoError)
                   EXCEPT !.side_effects =
                              [i \in DOMAIN Get(value.entries, "side_effects", << >>) |->
                                  SideEffect(value.entries.side_effects[i])],
                          !.warnings = Get(value.entries, "warnings", << >>)]
    ELSE ToolResult(request.request_id, "success", value.value, NoError)

handle_result(request, outcome) == result_of(request, Returned(outcome))

\* ToolRequest(request_id, tool, arguments, confirmed)
ToolRequest(request_id, tool, arguments, confirmed) ==
    [request_id |-> request_id, tool |-> tool, arguments |-> arguments,
     confirmed |-> confirmed]

\* A variant of the gate of line 169 that reads the flag of the request
\* (ToolRequest.requires_confirmation, which nothing sets) instead of the
\* flag of the registered schema.
confirmation_gate_on_request(request) == FALSE /\ ~request.confirmed

\* ------------------------------------------------ tools/server.py: execute
\* execute, line 169: the confirmation gate.
confirmation_gate(request) ==
    tools[request.tool].schema.requires_confirmation /\ ~request.confirmed

\* ToolServer.execute up to future.result(): validation, the confirmation
\* gate, and the submission of the handler to the pool. The call either returns
\* at once (calls[r] = "returned") or waits for the future (calls[r] = "waiting").
ExecuteBegin(r, request) ==
    LET v == validate_request(request)
        gated == confirmation_gate(request)
        returns(res) ==
            /\ results' = Put(results, r, res)
            /\ execution_time_ms' = Put(execution_time_ms, r, 0)
            /\ calls' = Put(calls, r, "returned")
            /\ futures' = Put(futures, r, Get(futures, r, "none"))
            /\ UNCHANGED work_queue
    IN  /\ Get(calls, r, "idle") # "waiting"
        /\ requests' = Put(requests, r, request)
        /\ attempts' = Put(attempts, r, Get(attempts, r, 0) + 1)
        /\ invoked' = Put(invoked, r, Get(invoked, r, 0))
        /\ IF ~v.valid
           THEN returns(ToolResult(request.request_id, "failed", NoPayload, v.error))
           ELSE IF gated
           THEN returns(ToolResult(request.request_id, "confirmation_required",
                                   <<"Action '", request.tool, "' requires confirmation">>,
                                   NoError))
           ELSE /\ futures' = Put(futures, r, "pending")
                /\ work_queue' = Append(work_queue, r)
                /\ calls' = Put(calls, r, "waiting")
                /\ results' = Put(results, r, Get(results, r, NoResult))
                /\ execution_time_ms' = Put(execution_time_ms, r, Get(execution_time_ms, r, 0))
        /\ UNCHANGED << tools, permission_tier, running, execution_history >>

\* A worker thread of the pool picks the oldest work item and enters the handler.
WorkerStart ==
    /\ work_queue # << >>
    /\ Cardinality(running) < max_workers
    /\ LET r == Head(work_queue)
       IN  /\ work_queue' = Tail(work_queue)
           /\ running' = running \cup {r}
           /\ futures' = [futures EXCEPT ![r] = "running"]
           /\ invoked' = [invoked EXCEPT ![r] = @ + 1]
    /\ UNCHANGED << tools, permission_tier, execution_history,
                    requests, calls, results, attempts, execution_time_ms >>

\* A variant of the pool that runs a work item again when its handler raised.
WorkerFinishRetrying(r, outcome) ==
    /\ r \in running
    /\ running' = running \ {r}
    /\ IF outcome = "exception" /\ invoked[r] < 2
       THEN /\ futures' = [futures EXCEPT ![r] = "pending"]
            /\ work_queue' = Append(work_queue, r)
       ELSE /\ futures' = [futures EXCEPT ![r] = outcome]
            /\ UNCHANGED work_queue
    /\ UNCHANGED << tools, permission_tier, execution_history, requests, calls,
                    results, attempts, invoked, execution_time_ms >>

\* A variant in which a handler that ends after its execute call has returned
\* is recorded in the history.
WorkerFinishRecording(r, outcome) ==
    /\ r \in running
    /\ running' = running \ {r}
    /\ futures' = [futures EXCEPT ![r] = outcome]
    /\ execution_history' =
           IF calls[r] = "returned"
           THEN Append(execution_history, ToolResult(r, "success", NoPayload, NoError))
           ELSE execution_history
    /\ UNCHANGED << tools, permission_tier, work_queue,
                    requests, calls, results, attempts, invoked, execution_time_ms >>

\* The handler returns or raises; the worker sets the future and is free again.
WorkerFinish(r, outcome) ==
    /\ r \in running
    /\ running' = running \ {r}
    /\ futures' = [futures EXCEPT ![r] = outcome]
    /\ UNCHANGED << tools, permission_tier, work_queue, execution_history,
                    requests, calls, results, attempts, invoked, execution_time_ms >>

\* The message of the fault a handler raised (str(e)).
FaultMessage == <<"str(e)">>

\* A variant of line 223 that reports the timeout in seconds.
timeout_execution_time_unscaled == timeout

\* execute, line 223: execution_time_ms = self._timeout * 1000
timeout_execution_time_ms == timeout * 1000

\* execute, lines 182 and 231: int((time.time() - start_time) * 1000) when the
\* handler ended within the timeout; one value stands for all of them.
MeasuredMs == timeout * 1000 - 1

\* execute, lines 218-224: the result of the `except FutureTimeoutError` branch.
timeout_result(request) ==
    ToolResult(request.request_id, "timeout", NoPayload,
               <<"Tool execution timed out after ", ToString(timeout), "s">>)

\* future.result() returns or re-raises what the handler did (lines 180-232):
\* a handler result is classified and appended to the history; an Exception
\* becomes a failed result (`except Exception`). The builtin TimeoutError is the
\* class FutureTimeoutError names from Python 3.11 on (`alias`), where it is
\* caught by the branch of line 218; on older versions it is an Exception like
\* any other. A BaseException that is no Exception is caught by neither branch
\* and leaves execute.
ExecuteReturn(r, alias) ==
    /\ r \in DOMAIN calls
    /\ calls[r] = "waiting"
    /\ futures[r] \in HandlerOutcomes \cup ReturnedValues
    /\ futures[r] # "timeout_error" => alias
    /\ IF futures[r] = "base_exception"
       THEN /\ calls' = [calls EXCEPT ![r] = "raised"]
            /\ UNCHANGED << results, execution_history, execution_time_ms >>
       ELSE IF futures[r] = "timeout_error" /\ alias
       THEN /\ results' = [results EXCEPT ![r] = timeout_result(requests[r])]
            /\ execution_time_ms' = [execution_time_ms EXCEPT ![r] = timeout_execution_time_ms]
            /\ calls' = [calls EXCEPT ![r] = "returned"]
            /\ UNCHANGED execution_history
       ELSE IF \/ futures[r] \in {"exception", "timeout_error"}
               \/ futures[r] \in ReturnedValues /\ result_raises(Returned(futures[r]))
       THEN /\ results' = [results EXCEPT ![r] =
                   ToolResult(requests[r].request_id, "failed", NoPayload, FaultMessage)]
            /\ execution_time_ms' = [execution_time_ms EXCEPT ![r] = MeasuredMs]
            /\ calls' = [calls EXCEPT ![r] = "returned"]
            /\ UNCHANGED execution_history
       ELSE /\ results' = [results EXCEPT ![r] = handle_result(requests[r], futures[r])]
            /\ execution_time_ms' = [execution_time_ms EXCEPT ![r] = MeasuredMs]
            /\ execution_history' =
                   Append(execution_history, handle_result(requests[r], futures[r]))
            /\ calls' = [calls EXCEPT ![r] = "returned"]
    /\ UNCHANGED << tools, permission_tier, work_queue, running,
                    futures, requests, attempts, invoked >>

\* future.result(timeout) gives up while the future is not done (lines 218-224);
\* the work item stays where it is. A work item is still in the queue after
\* `timeout` seconds only when every worker is busy: a free worker picks it up
\* at once.
ExecuteTimeout(r) ==
    /\ r \in DOMAIN calls
    /\ calls[r] = "waiting"
    /\ \/ futures[r] = "running"
       \/ futures[r] = "pending" /\ Cardinality(running) >= max_workers
    /\ results' = [results EXCEPT ![r] = timeout_result(requests[r])]
    /\ execution_time_ms' = [execution_time_ms EXCEPT ![r] = timeout_execution_time_ms]
    /\ calls' = [calls EXCEPT ![r] = "returned"]
    /\ UNCHANGED << tools, permission_tier, work_queue, running,
                    futures, execution_history, requests, attempts, invoked >>

\* ------------------------------------- tools/server.py: registry and settings
\* ToolServer.register_tool: stores the schema under its name, enabled.
register_tool(schema) ==
    /\ ~(/\ schema.name \in DOMAIN tools
         /\ tools[schema.name] = [schema |-> schema, enabled |-> TRUE])
    /\ tools' = Put(tools, schema.name, [schema |-> schema, enabled |-> TRUE])
    /\ UNCHANGED << permission_tier, work_queue, running, futures, execution_history,
                    requests, calls, results, attempts, invoked, execution_time_ms >>

\* ToolServer.enable_tool / disable_tool: no effect on an unknown name. (The
\* calls that change nothing are left to stuttering: here and in register_tool
\* and set_permission_tier.)
set_enabled(name, flag) ==
    /\ name \in DOMAIN tools
    /\ tools[name].enabled # flag
    /\ tools' = [tools EXCEPT ![name].enabled = flag]
    /\ UNCHANGED << permission_tier, work_queue, running, futures, execution_history,
                    requests, calls, results, attempts, invoked, execution_time_ms >>

enable_tool(name) == set_enabled(name, TRUE)

disable_tool(name) == set_enabled(name, FALSE)

\* ToolServer.set_permission_tier
set_permission_tier(tier) ==
    /\ permission_tier # tier
    /\ permission_tier' = tier
    /\ UNCHANGED << tools, work_queue, running, futures, execution_history,
                    requests, calls, results, attempts, invoked, execution_time_ms >>

\* ToolServer.get_tool_schema(name): the schema stored under the name, or None;
\* the Optional is a sequence of at most one schema.
get_tool_schema(name) ==
    IF name \in DOMAIN tools THEN << tools[name].schema >> ELSE << >>

\* ToolServer.get_execution_history(limit): self._execution_history[-limit:]
get_execution_history(limit) ==
    IF Len(execution_history) <= limit THEN execution_history
    ELSE SubSeq(execution_history, Len(execution_history) - limit + 1,
                Len(execution_history))

\* ------------------------------------------------------ callers of execute
NextRequestId == Cardinality(DOMAIN requests) + 1

\* A caller builds a new ToolRequest and calls execute(request).
DirectExecute(tool, arguments, confirmed) ==
    ExecuteBegin(NextRequestId, ToolRequest(NextRequestId, tool, arguments, confirmed))

\* A variant of the resubmission that leaves the request as it was.
confirmed_request_unchanged(request) == request

\* request.confirmed = True (agent.py line 200)
confirmed_request(request) == [request EXCEPT !.confirmed = TRUE]

\* A caller that got confirmation_required sets request.confirmed = True and
\* calls execute(request) again.
DirectResubmit(r) ==
    /\ r \in DOMAIN calls
    /\ calls[r] = "returned"
    /\ results[r].status = "confirmation_required"
    /\ ExecuteBegin(r, confirmed_request(requests[r]))

\* ToolServer.execute_batch: execute(request) for the next request of the list,
\* once the one before has returned, unless that one failed (`break`).
execute_batch(tool, arguments, confirmed) ==
    /\ NextRequestId > 1
    /\ calls[NextRequestId - 1] = "returned"
    /\ results[NextRequestId - 1].status # "failed"
    /\ DirectExecute(tool, arguments, confirmed)

\* ---------------------------------------------------------------------------
\* OllamaClient._parse_tool_call (src/llm/client.py)
\*
\* A text is a sequence of tokens; a token stands for a piece of the text the
\* regular expressions and the JSON parser treat as a unit. A key/value pair
\* token stands for the pair together with the comma that separates it from
\* its neighbours.
PythonStart == "<|python_start|>"
PythonEnd == "<|python_end|>"
Fence == "fence"                  \* three backquotes
JsonTag == "json"                 \* the word json right after an opening fence
LBrace == "{"
RBrace == "}"
ReplyToolNames == {"a", "b"}
ToolPair(name) == IF name = "a" THEN "tool: a" ELSE "tool: b"  \* the pair "tool": "<name>"
ToolOf(token) == CHOOSE name \in ReplyToolNames : ToolPair(name) = token
ThoughtPair == "thought: t"       \* a pair with a string value without braces
ConfirmedPair == "confirmed: true" \* the pair "confirmed": true
ArgumentsKey == "arguments:"      \* the key "arguments" and its colon
StringOpen == "text: quote"       \* the key "text", its colon and the opening quote
StringClose == "quote"            \* the closing quote of that string
Prose == "words"                  \* text without braces, quotes, fences or tags

IsToolPair(token) == token \in { ToolPair(n) : n \in ReplyToolNames }

EmptyObject == << LBrace, RBrace >>

\* json.loads(json_str) of lines 147 and 171: the dict of one JSON object, or
\* JSONDecodeError (ok = FALSE). tool is the value of the top-level key "tool"
\* (a sequence of at most one name; the last pair wins as in a dict), arguments
\* the tokens of the value of the top-level key "arguments".
RECURSIVE json_scan(_, _, _)
json_scan(json_str, i, st) ==
    IF i > Len(json_str) \/ ~st.ok THEN st
    ELSE LET token == json_str[i]
             fail == [st EXCEPT !.ok = FALSE]
             next ==
                 IF st.done THEN fail                     \* extra data
                 ELSE IF st.in_string
                 THEN IF token = StringClose
                      THEN [st EXCEPT !.in_string = FALSE] ELSE st
                 ELSE IF st.after_key \/ st.depth = 0
                 THEN IF token = LBrace
                      THEN [st EXCEPT !.depth = @ + 1, !.after_key = FALSE,
                                      !.args_from = IF st.depth = 1 THEN i ELSE @,
                                      !.args_to = IF st.depth = 1 THEN 0 ELSE @]
                      ELSE fail
                 ELSE IF IsToolPair(token)
                 THEN IF st.depth = 1 THEN [st EXCEPT !.tool = << ToolOf(token) >>] ELSE st
                 ELSE IF token \in {ThoughtPair, ConfirmedPair} THEN st
                 ELSE IF token = ArgumentsKey THEN [st EXCEPT !.after_key = TRUE]
                 ELSE IF token = StringOpen THEN [st EXCEPT !.in_string = TRUE]
                 ELSE IF token = RBrace
                 THEN [st EXCEPT !.depth = @ - 1,
                                 !.done = (st.depth = 1),
                                 !.args_to = IF st.depth = 2 THEN i ELSE @]
                 ELSE fail
         IN  json_scan(json_str, i + 1, next)

json_loads(json_str) ==
    LET st == json_scan(json_str, 1,
                        [ok |-> TRUE, depth |-> 0, in_string |-> FALSE,
                         after_key |-> FALSE, done |-> FALSE, tool |-> << >>,
                         args_from |-> 0, args_to |-> 0])
    IN  [ok |-> st.ok /\ st.done,
         tool |-> st.tool,
         arguments |-> IF st.ok /\ st.done /\ st.args_from > 0
                       THEN SubSeq(json_str, st.args_from, st.args_to)
                       ELSE EmptyObject]

\* re.findall of the first three patterns (lines 107-111, 117): the text between
\* an opening sequence of tokens and the nearest closing token after it, for
\* every such pair from left to right, without overlap.
RECURSIVE findall_between(_, _, _, _)
findall_between(content, opening, closing, from) ==
    LET closings(i) == { j \in (i + Len(opening))..Len(content) : content[j] = closing }
        starts == { i \in from..(Len(content) - Len(opening) + 1) :
                      /\ SubSeq(content, i, i + Len(opening) - 1) = opening
                      /\ closings(i) # {} }
    IN  IF starts = {} THEN << >>
        ELSE LET i == SetMin(starts)
                 j == SetMin(closings(i))
             IN  << SubSeq(content, i + Len(opening), j - 1) >>
                     \o findall_between(content, opening, closing, j + 1)

\* re.findall of the fourth pattern (line 113): from an opening brace to the
\* next brace, when that one is a closing brace and a "tool" pair lies between.
RECURSIVE findall_bare(_, _)
findall_bare(content, from) ==
    LET braces(i) == { j \in (i + 1)..Len(content) : content[j] \in {LBrace, RBrace} }
        starts == { i \in from..Len(content) :
                      /\ content[i] = LBrace
                      /\ braces(i) # {}
                      /\ content[SetMin(braces(i))] = RBrace
                      /\ \E k \in (i + 1)..(SetMin(braces(i)) - 1) :
                             IsToolPair(content[k]) }
    IN  IF starts = {} THEN << >>
        ELSE LET i == SetMin(starts)
                 j == SetMin(braces(i))
             IN  << SubSeq(content, i, j) >> \o findall_bare(content, j + 1)

\* json_patterns (lines 105-114) with re.findall (line 117).
json_patterns == 1..4

findall(pattern, content) ==
    CASE pattern = 1 -> findall_between(content, << PythonStart >>, PythonEnd, 1)
      [] pattern = 2 -> findall_between(content, << Fence, JsonTag >>, Fence, 1)
      [] pattern = 3 -> findall_between(content, << Fence >>, Fence, 1)
      [] pattern = 4 -> findall_bare(content, 1)

\* Lines 120-139: the candidates of a match, cut where the brace count returns
\* to zero; the whole match when there is none.
RECURSIVE brace_scan(_, _, _, _, _)
brace_scan(match, i, brace_count, current_json, json_candidates) ==
    IF i > Len(match) THEN json_candidates
    ELSE LET char == match[i]
             opened == IF char = LBrace THEN brace_count + 1 ELSE brace_count
             current == IF opened > 0 THEN Append(current_json, char) ELSE current_json
             closed == IF char = RBrace THEN opened - 1 ELSE opened
             complete == char = RBrace /\ closed = 0 /\ current # << >>
         IN  brace_scan(match, i + 1, closed,
                        IF complete THEN << >> ELSE current,
                        IF complete THEN Append(json_candidates, current)
                        ELSE json_candidates)

json_candidates_of(match) ==
    LET found == brace_scan(match, 1, 0, << >>, << >>)
    IN  IF found = << >> THEN << match >> ELSE found

\* Lines 142-157: the request of the first candidate that starts with a brace,
\* parses and has the key "tool"; << >> when no candidate does.
RECURSIVE first_tool_request(_, _)
first_tool_request(candidates, k) ==
    IF k > Len(candidates) THEN << >>
    ELSE LET json_str == candidates[k]
             data == json_loads(json_str)
         IN  IF json_str # << >> /\ json_str[1] = LBrace /\ data.ok /\ data.tool # << >>
             THEN << ToolRequest(0, data.tool[1], data.arguments, FALSE) >>
             ELSE first_tool_request(candidates, k + 1)

\* Lines 118-157: the matches of one pattern from left to right.
RECURSIVE first_in_matches(_, _)
first_in_matches(matches, m) ==
    IF m > Len(matches) THEN << >>
    ELSE LET found == first_tool_request(json_candidates_of(matches[m]), 1)
         IN  IF found # << >> THEN found ELSE first_in_matches(matches, m + 1)

\* Line 116: the patterns in the order of json_patterns.
RECURSIVE first_in_patterns(_, _)
first_in_patterns(content, pattern) ==
    IF pattern \notin json_patterns THEN << >>
    ELSE LET found == first_in_matches(findall(pattern, content), 1)
         IN  IF found # << >> THEN found
             ELSE first_in_patterns(content, pattern + 1)

\* Lines 159-178: the first "tool" pair anywhere in the text, with the first
\* "arguments" object that ends at the nearest closing brace when it parses.
last_resort(content) ==
    LET tool_matches == { i \in 1..Len(content) : IsToolPair(content[i]) }
        closings(i) == { j \in (i + 2)..Len(content) : content[j] = RBrace }
        args_matches == { i \in 1..(Len(content) - 1) :
                            /\ content[i] = ArgumentsKey
                            /\ content[i + 1] = LBrace
                            /\ closings(i) # {}
                            /\ SetMin(closings(i)) > i + 2 }
        group == LET i == SetMin(args_matches)
                 IN  SubSeq(content, i + 1, SetMin(closings(i)))
        args == IF args_matches # {} /\ json_loads(group).ok
                THEN group ELSE EmptyObject
    IN  IF tool_matches = {} THEN << >>
        ELSE << ToolRequest(0, ToolOf(content[SetMin(tool_matches)]), args, FALSE) >>

\* OllamaClient._parse_tool_call: Optional[ToolRequest] as a sequence of at
\* most one request. The request_id is the fresh uuid of ToolRequest, 0 here.
parse_tool_call(content) ==
    LET found == first_in_patterns(content, 1)
    IN  IF found # << >> THEN found ELSE last_resort(content)

\* The replies explored: up to MaxSegments segments, each one object in one
\* of the four places the patterns look at, or plain words. The objects follow
\* the format of the system prompt (lines 60-68): one with the key "tool" only,
\* one with an "arguments" object, one whose argument is a string that holds a
\* closing brace, one that also says "confirmed": true, one without the key
\* "tool", one that is cut off, one with words between its braces. A text is also one fenced block that holds
\* MaxSegments of these one after the other.
MaxSegments == 2

Wrappers == {"delimiters", "json_fence", "fence", "bare"}

ActionKinds == {"flat", "nested", "brace_in_string", "confirmed"}

Body(kind, name) ==
    CASE kind = "flat" -> << LBrace, ToolPair(name), RBrace >>
      [] kind = "confirmed" -> << LBrace, ToolPair(name), ConfirmedPair, RBrace >>
      [] kind = "nested" ->
            << LBrace, ThoughtPair, ToolPair(name), ArgumentsKey,
               LBrace, ThoughtPair, RBrace, RBrace >>
      [] kind = "brace_in_string" ->
            << LBrace, ToolPair(name), ArgumentsKey,
               LBrace, StringOpen, RBrace, StringClose, RBrace, RBrace >>
      [] kind = "no_tool" -> << LBrace, ThoughtPair, RBrace >>
      [] kind = "unparseable" -> << LBrace, Prose, RBrace >>
      [] kind = "unclosed" -> << LBrace, ToolPair(name) >>
      [] kind = "prose" -> << Prose >>

Wrap(wrapper, body) ==
    CASE wrapper = "delimiters" -> << PythonStart >> \o body \o << PythonEnd >>
      [] wrapper = "json_fence" -> << Fence, JsonTag >> \o body \o << Fence >>
      [] wrapper = "fence" -> << Fence >> \o body \o << Fence >>
      [] wrapper = "bare" -> body

ActionSegments ==
    [wrapper : Wrappers, kind : ActionKinds, name : ReplyToolNames]

Segments ==
    ActionSegments
        \cup [wrapper : Wrappers, kind : {"no_tool", "unclosed"}, name : {"a"}]
        \cup [wrapper : {"bare"}, kind : {"unparseable"}, name : {"a"}]
        \cup [wrapper : {"bare"}, kind : {"prose"}, name : {"a"}]

RECURSIVE Render(_)
Render(segments) ==
    IF segments = << >> THEN << >>
    ELSE Wrap(Head(segments).wrapper, Body(Head(segments).kind, Head(segments).name))
             \o Render(Tail(segments))

Texts ==
    { Render(segments) :
        segments \in UNION { [1..n -> Segments] : n \in 1..MaxSegments } }
        \cup { Wrap(wrapper, Render(objects)) :
                    wrapper \in {"json_fence", "fence"},
                    objects \in [1..MaxSegments ->
                                    { s \in Segments : s.wrapper = "bare" }] }

\* OllamaClient.chat, lines 224-233, for a reply with the text `text`; the
\* first call of chat on the client is explored.
chat(text) ==
    /\ pc = "idle"
    /\ chat_content = << >>
    /\ chat_content' = text
    /\ chat_tool_calls' = parse_tool_call(text)
    /\ UNCHANGED << serverVars, pc, iterations, llm_calls, messages, conversation,
                    tool_request, final_response, confirmation_handler, approvals,
                    raised, on_event, last_reply, llm_tools >>

\* ------------------------------------------------- orchestrator/agent.py
\* Message(role, content, tool_calls, tool_results); content is the sequence of
\* the pieces of its text.
Message(role, content, tool_calls, tool_results) ==
    [role |-> role, content |-> content, tool_calls |-> tool_calls,
     tool_results |-> tool_results]

\* {"role": ..., "content": ...} as sent to the model
LLMMessage(role, content) == [role |-> role, content |-> content]

\* What self.llm.chat(messages) does in one call: it raises, or it returns a
\* reply whose text holds a tool call (LLMResponse.tool_calls = [ToolRequest(tool,
\* arguments)], confirmed left at its default False), or a reply without one.
LLMErrors ==
    {"LLM request timed out", "Could not connect to Ollama. Is it running?",
     "str(e) of any other exception"}

ToolCallReplies ==
    { [kind |-> "tool_call", tool |-> "file_read", arguments |-> [path |-> "str"]],
      [kind |-> "tool_call", tool |-> "file_delete", arguments |-> [path |-> "str"]],
      [kind |-> "tool_call", tool |-> "file_delete", arguments |-> EmptyArgs],
      [kind |-> "tool_call", tool |-> UnknownName, arguments |-> EmptyArgs] }

\* _clean_response, lines 130-138: the end of the match of one of the four
\* re.sub patterns that starts at token i, 0 when none starts there.
sub_end(pattern, content, i) ==
    LET closings(from, token) == { j \in from..Len(content) : content[j] = token }
        braces == { j \in (i + 1)..Len(content) : content[j] \in {LBrace, RBrace} }
        block_end(first) ==
            IF /\ first <= Len(content)
               /\ content[first] = LBrace
               /\ closings(first + 1, Fence) # {}
               /\ SetMin(closings(first + 1, Fence)) - 1 > first
               /\ content[SetMin(closings(first + 1, Fence)) - 1] = RBrace
            THEN SetMin(closings(first + 1, Fence)) ELSE 0
    IN  CASE pattern = 1 ->
                 IF content[i] = PythonStart /\ closings(i + 1, PythonEnd) # {}
                 THEN SetMin(closings(i + 1, PythonEnd)) ELSE 0
          [] pattern = 2 ->
                 IF i < Len(content) /\ content[i] = Fence /\ content[i + 1] = JsonTag
                 THEN block_end(i + 2) ELSE 0
          [] pattern = 3 ->
                 IF content[i] = Fence THEN block_end(i + 1) ELSE 0
          [] pattern = 4 ->
                 IF /\ content[i] = LBrace
                    /\ braces # {}
                    /\ content[SetMin(braces)] = RBrace
                    /\ \E k \in (i + 1)..(SetMin(braces) - 1) : IsToolPair(content[k])
                 THEN SetMin(braces) ELSE 0

\* re.sub(pattern, '', content): every match from left to right is removed.
RECURSIVE re_sub(_, _, _)
re_sub(pattern, content, i) ==
    IF i > Len(content) THEN << >>
    ELSE IF sub_end(pattern, content, i) > 0
    THEN re_sub(pattern, content, sub_end(pattern, content, i) + 1)
    ELSE << content[i] >> \o re_sub(pattern, content, i + 1)

\* A variant of _clean_response that returns the text as it is.
clean_response_unchanged(content) == content

\* AgentOrchestrator._clean_response: the four substitutions in their order
\* (white space is not part of a token, so strip() has nothing left to do).
clean_response(content) ==
    re_sub(4, re_sub(3, re_sub(2, re_sub(1, content, 1), 1), 1), 1)

\* len() of a text: the characters of its tokens.
ShortProse == "ok"

RECURSIVE len(_)
len(content) ==
    IF content = << >> THEN 0
    ELSE (CASE Head(content) = PythonStart -> 16
            [] Head(content) = PythonEnd -> 14
            [] Head(content) = Fence -> 3
            [] Head(content) = JsonTag -> 4
            [] Head(content) \in {LBrace, RBrace, StringClose} -> 1
            [] Head(content) = ShortProse -> 2
            [] OTHER -> 10) + len(Tail(content))

\* process, lines 243-247: the final response for a reply without a tool call.
final_answer(content) ==
    IF clean_response(content) = << >> \/ len(clean_response(content)) < 5
    THEN <<"Done!">> ELSE clean_response(content)

\* Replies in which _parse_tool_call finds no tool call: words, a short word, a
\* json block without the key "tool", words followed by a delimiter pair around
\* such an object.
FinalTexts ==
    { text \in { << Prose >>, << ShortProse >>,
                 Wrap("json_fence", Body("no_tool", "a")),
                 << Prose >> \o Wrap("delimiters", Body("no_tool", "a")) } :
        parse_tool_call(text) = << >> }

TextReplies == { [kind |-> "text", content |-> text] : text \in FinalTexts }

LLMReplies ==
    { [kind |-> "error", error |-> e] : e \in LLMErrors } \cup ToolCallReplies
        \cup TextReplies

\* The text of a reply that holds a tool call.
ToolCallContent(reply) == <<"json tool call: ", reply.tool>>

\* AgentOrchestrator._format_tool_result_for_llm
format_tool_result_for_llm(result) ==
    CASE result.status = "success" ->
             <<"Tool '", ToString(result.request_id), "' executed successfully. Result: ">>
                 \o result.result
      [] result.status = "confirmation_required" ->
             <<"Tool requires confirmation from user. Please ask the user if they want to proceed.">>
      [] result.status = "cancelled" ->
             <<"User cancelled this operation.">>
      [] OTHER ->
             <<"Tool failed with error: ">> \o result.error

\* process, lines 210-239: the reply and the result go to `messages` and to the
\* conversation, and the loop continues.
FoldResult(content, result) ==
    LET tool_result_text == format_tool_result_for_llm(result)
    IN  /\ messages' = messages \o
               << LLMMessage("assistant", content),
                  LLMMessage("user", <<"[Tool Result] ">> \o tool_result_text \o
                      <<" Please continue with the task or provide a summary if complete.">>) >>
        /\ conversation' = conversation \o
               << Message("assistant", content, <<tool_request>>, << >>),
                  Message("tool", tool_result_text, << >>, <<result>>) >>
        /\ pc' = "loop"

\* A variant of lines 251-257 that stores the final response also when it is
\* empty.
FinishStoringAlways(response) ==
    /\ final_response' = response
    /\ conversation' = Append(conversation, Message("assistant", response, << >>, << >>))
    /\ pc' = "done"

\* process, lines 251-257: the end of the call.
Finish(response) ==
    /\ final_response' = response
    /\ conversation' = IF response # << >>
                       THEN Append(conversation, Message("assistant", response, << >>, << >>))
                       ELSE conversation
    /\ pc' = "done"

\* The last n elements of a list (s[-n:]).
LastN(s, n) == IF Len(s) <= n THEN s ELSE SubSeq(s, Len(s) - n + 1, Len(s))

\* ToolServer.get_tool_schemas: the schemas of the enabled tools.
get_tool_schemas == { tools[n].schema : n \in { m \in DOMAIN tools : tools[m].enabled } }

\* What an observability callback slot (on_thinking, on_tool_call,
\* on_tool_result, on_response) holds: None, or a callable, which returns or
\* raises when it is called.
ObserverSettings == {"none", "callable"}

\* A variant of set_callbacks that keeps the confirmation handler when the
\* caller passes none.
set_callbacks_keeping_handler(observers, handler) ==
    /\ pc = "idle"
    /\ on_event # observers \/ confirmation_handler # handler
    /\ on_event' = observers
    /\ confirmation_handler' = (handler \/ confirmation_handler)
    /\ UNCHANGED << serverVars, pc, iterations, llm_calls, messages, conversation,
                    tool_request, final_response, approvals, raised, last_reply,
                    llm_tools,
                    chat_content, chat_tool_calls >>

\* AgentOrchestrator.set_callbacks(on_thinking, on_tool_call, on_tool_result,
\* on_response, confirmation_handler), between calls of process: every slot is
\* assigned, also the ones the caller leaves at the default None.
set_callbacks(observers, handler) ==
    /\ pc = "idle"
    /\ on_event # observers \/ confirmation_handler # handler
    /\ on_event' = observers
    /\ confirmation_handler' = handler
    /\ UNCHANGED << serverVars, pc, iterations, llm_calls, messages, conversation,
                    tool_request, final_response, approvals, raised, last_reply,
                    llm_tools,
                    chat_content, chat_tool_calls >>

\* process, lines 157-168.
ProcessStart ==
    /\ pc = "idle"
    /\ conversation' = Append(conversation, Message("user", <<"user input">>, << >>, << >>))
    /\ messages' = [i \in 1..Len(LastN(conversation', window)) |->
                       LLMMessage(LastN(conversation', window)[i].role,
                                  LastN(conversation', window)[i].content)]
    /\ iterations' = 0
    /\ llm_calls' = 0
    /\ final_response' = << >>
    /\ pc' = "loop"
    /\ UNCHANGED << serverVars, tool_request, confirmation_handler, approvals, raised,
                    on_event, last_reply, llm_tools,
                    chat_content, chat_tool_calls >>

\* A variant of line 170 with an inclusive comparison.
LoopConditionInclusive == iterations <= max_iterations

\* Variants of line 197 that never resp. always call the confirmation handler.
handler_never_called == FALSE

handler_always_called == TRUE

\* A variant of lines 204-208 that keeps the result execute returned.
result_kept(request) == results[request.request_id]

\* A variant of line 177 that leaves final_response empty.
gateway_error_silenced(error) == << >>

\* process, line 170: while iterations < self.max_iterations
LoopCondition == iterations < max_iterations

\* process, line 197: if self._confirmation_handler
handler_set == confirmation_handler

\* process, lines 204-208: the result of a turn the user declined.
cancelled_result(request) ==
    ToolResult(request.request_id, "cancelled", NoPayload, <<"User cancelled the operation">>)

\* process, line 177: the final response after self.llm.chat raised.
gateway_error_response(error) ==
    <<"I encountered an error communicating with the AI model: ", error>>

\* An _emit_* helper (lines 84-109) is called: an absent callback is skipped, a
\* callable returns (fails = FALSE) or raises (fails = TRUE).
CanEmit(fails) == fails => on_event = "callable"

\* process, line 170, when the budget is used up: the loop ends with an empty
\* final_response, which is neither stored nor emitted.
LoopExit ==
    /\ pc = "loop"
    /\ ~LoopCondition
    /\ Finish(final_response)
    /\ UNCHANGED << serverVars, iterations, llm_calls, messages, tool_request,
                    confirmation_handler, approvals, raised, on_event, last_reply,
                    llm_tools,
                    chat_content, chat_tool_calls >>

\* process, lines 170-193 and 241-257: one more iteration. The model is called;
\* an error or a reply without a tool call ends the loop (the final response is
\* stored and handed to on_response), a tool call is announced to on_thinking
\* and on_tool_call and handed to ToolServer.execute. An exception raised by a
\* callback is not caught by process and leaves it. chat_content and
\* chat_tool_calls are what chat returned as LLMResponse.content and
\* LLMResponse.tool_calls.
LLMCall(reply, fails) ==
    /\ pc = "loop"
    /\ LoopCondition
    /\ CanEmit(fails)
    /\ iterations' = iterations + 1
    /\ llm_calls' = llm_calls + 1
    /\ last_reply' = reply.kind
    /\ IF reply.kind = "error"
       THEN /\ Finish(gateway_error_response(reply.error))
            /\ raised' = IF fails /\ final_response' # << >> THEN "on_response" ELSE raised
            /\ UNCHANGED << serverVars, messages, tool_request, approvals >>
       ELSE IF reply.kind = "text"
       THEN /\ Finish(final_answer(reply.content))
            /\ raised' = IF fails THEN "on_response" ELSE raised
            /\ UNCHANGED << serverVars, messages, tool_request, approvals >>
       ELSE IF fails
       THEN /\ pc' = "done"
            /\ raised' = "on_tool_call"
            /\ UNCHANGED << serverVars, messages, conversation, tool_request, approvals,
                            final_response >>
       ELSE /\ tool_request' = NextRequestId
            /\ approvals' = Put(approvals, NextRequestId, << >>)
            /\ ExecuteBegin(NextRequestId,
                   ToolRequest(NextRequestId, reply.tool, reply.arguments, FALSE))
            /\ pc' = "execute"
            /\ UNCHANGED << messages, conversation, final_response, raised >>
    /\ chat_content' = CASE reply.kind = "error" -> chat_content
                          [] reply.kind = "text" -> reply.content
                          [] OTHER -> ToolCallContent(reply)
    /\ chat_tool_calls' =
           CASE reply.kind = "error" -> chat_tool_calls
             [] reply.kind = "text" -> << >>
             [] OTHER -> << ToolRequest(NextRequestId, reply.tool, reply.arguments, FALSE) >>
    /\ UNCHANGED << confirmation_handler, on_event, llm_tools >>

\* The text of the reply that proposed the current tool_request.
CurrentContent ==
    ToolCallContent([tool |-> requests[tool_request].tool])

\* process, lines 193 and 202: self._emit_tool_result(result) raises.
EmitToolResultRaises ==
    /\ pc' = "done"
    /\ raised' = "on_tool_result"
    /\ UNCHANGED << messages, conversation >>

\* A variant of line 192 that goes on to the next iteration without waiting for
\* execute to return.
AfterExecuteWithoutWaiting(fails) ==
    /\ pc = "execute"
    /\ ~fails
    /\ pc' = "loop"
    /\ UNCHANGED << serverVars, iterations, llm_calls, messages, conversation,
                    tool_request, final_response, confirmation_handler, approvals,
                    raised, on_event, last_reply, llm_tools,
                    chat_content, chat_tool_calls >>

\* process, lines 192-208, after execute returned: the result is handed to
\* on_tool_result; a confirmation_required result makes process call the
\* confirmation handler when one is set; any other result, and
\* confirmation_required without a handler, is what the turn ends with.
AfterExecute(fails) ==
    /\ pc = "execute"
    /\ calls[tool_request] = "returned"
    /\ CanEmit(fails)
    /\ IF fails
       THEN EmitToolResultRaises
       ELSE IF results[tool_request].status = "confirmation_required" /\ handler_set
       THEN /\ pc' = "confirm"
            /\ UNCHANGED << messages, conversation, raised >>
       ELSE FoldResult(CurrentContent, results[tool_request]) /\ UNCHANGED raised
    /\ UNCHANGED << serverVars, iterations, llm_calls, tool_request, final_response,
                    confirmation_handler, approvals, on_event, last_reply, llm_tools,
                    chat_content, chat_tool_calls >>

\* A variant of lines 198-202 that executes the request again whatever the
\* confirmation handler answers.
ConfirmIgnoringAnswer(confirmed) ==
    /\ pc = "confirm"
    /\ approvals' = [approvals EXCEPT ![tool_request] = Append(@, confirmed)]
    /\ ExecuteBegin(tool_request, confirmed_request(requests[tool_request]))
    /\ pc' = "execute_again"
    /\ UNCHANGED << messages, conversation >>
    /\ UNCHANGED << iterations, llm_calls, tool_request, final_response,
                    confirmation_handler, raised, on_event, last_reply, llm_tools,
                    chat_content, chat_tool_calls >>

\* process, lines 198-208: the confirmation handler answers. On True the request
\* is marked confirmed and executed again; on False the turn ends with a
\* cancelled result.
Confirm(confirmed) ==
    /\ pc = "confirm"
    /\ approvals' = [approvals EXCEPT ![tool_request] = Append(@, confirmed)]
    /\ IF confirmed
       THEN /\ ExecuteBegin(tool_request, confirmed_request(requests[tool_request]))
            /\ pc' = "execute_again"
            /\ UNCHANGED << messages, conversation >>
       ELSE /\ FoldResult(CurrentContent, cancelled_result(requests[tool_request]))
            /\ UNCHANGED serverVars
    /\ UNCHANGED << iterations, llm_calls, tool_request, final_response,
                    confirmation_handler, raised, on_event, last_reply, llm_tools,
                    chat_content, chat_tool_calls >>

\* process, lines 201-202 and 210-239: the second execute returned.
AfterExecuteAgain(fails) ==
    /\ pc = "execute_again"
    /\ calls[tool_request] = "returned"
    /\ CanEmit(fails)
    /\ IF fails
       THEN EmitToolResultRaises
       ELSE FoldResult(CurrentContent, results[tool_request]) /\ UNCHANGED raised
    /\ UNCHANGED << serverVars, iterations, llm_calls, tool_request, final_response,
                    confirmation_handler, approvals, on_event, last_reply, llm_tools,
                    chat_content, chat_tool_calls >>

\* process, lines 192 and 201: execute raised (a handler fault that execute does
\* not catch); process has no try around the call, the exception leaves process.
ExecuteRaises ==
    /\ pc \in {"execute", "execute_again"}
    /\ calls[tool_request] = "raised"
    /\ pc' = "done"
    /\ raised' = "handler"
    /\ UNCHANGED << serverVars, iterations, llm_calls, messages, conversation,
                    tool_request, final_response, confirmation_handler, approvals,
                    on_event, last_reply, llm_tools,
                    chat_content, chat_tool_calls >>

\* ------------------------------------------------------------ specifications
\* An orchestrator between two calls of process, with the messages of the
\* earlier calls in its conversation.
AgentIdleAfter(earlier) ==
    /\ pc = "idle"
    /\ iterations = 0
    /\ llm_calls = 0
    /\ messages = << >>
    /\ conversation = earlier
    /\ tool_request = 0
    /\ final_response = << >>
    /\ confirmation_handler = FALSE
    /\ approvals = [r \in {} |-> None]
    /\ raised = "none"
    /\ on_event = "none"
    /\ last_reply = "none"
    /\ llm_tools = get_tool_schemas
    /\ chat_content = << >>
    /\ chat_tool_calls = << >>

\* AgentOrchestrator.__init__: an empty conversation.
AgentIdle == AgentIdleAfter(<< >>)

ServerIdle ==
    /\ permission_tier = "OPERATOR"
    /\ work_queue = << >>
    /\ running = {}
    /\ futures = [r \in {} |-> None]
    /\ execution_history = << >>
    /\ requests = [r \in {} |-> None]
    /\ calls = [r \in {} |-> None]
    /\ results = [r \in {} |-> None]
    /\ attempts = [r \in {} |-> None]
    /\ invoked = [r \in {} |-> None]
    /\ execution_time_ms = [r \in {} |-> None]

\* ToolServer.__init__: an empty registry.
Init ==
    /\ tools = [n \in {} |-> None]
    /\ ServerIdle
    /\ AgentIdle

\* --- the pool and the waiting execute calls
PoolStart == WorkerStart /\ UNCHANGED agentVars

PoolFinish ==
    \E r \in DOMAIN requests, outcome \in HandlerOutcomes :
        WorkerFinish(r, outcome) /\ UNCHANGED agentVars

ResultReturn ==
    \E r \in DOMAIN requests, alias \in BOOLEAN :
        ExecuteReturn(r, alias) /\ UNCHANGED agentVars

ResultTimeout == \E r \in DOMAIN requests : ExecuteTimeout(r) /\ UNCHANGED agentVars

\* --- the tool server used through its own interface
Register == \E schema \in Schemas : register_tool(schema) /\ UNCHANGED agentVars

Enable == \E name \in ToolNames : enable_tool(name) /\ UNCHANGED agentVars

Disable == \E name \in ToolNames : disable_tool(name) /\ UNCHANGED agentVars

SetTier == \E tier \in PermissionTier : set_permission_tier(tier) /\ UNCHANGED agentVars

Call ==
    \E tool \in ToolNames \cup {UnknownName}, arguments \in ArgumentSets,
       confirmed \in BOOLEAN :
        /\ NextRequestId <= MaxRequests
        /\ DirectExecute(tool, arguments, confirmed)
        /\ UNCHANGED agentVars

CallAgain == \E r \in DOMAIN requests : DirectResubmit(r) /\ UNCHANGED agentVars

Next ==
    \/ Register
    \/ Enable
    \/ Disable
    \/ SetTier
    \/ Call
    \/ CallAgain
    \/ PoolStart
    \/ PoolFinish
    \/ ResultReturn
    \/ ResultTimeout

Spec == Init /\ [][Next]_vars

\* --- several callers of one tool server with the catalog of get_tool_server()
PoolInit ==
    /\ tools = DefaultCatalog
    /\ ServerIdle
    /\ AgentIdle

PoolCall ==
    \E tool \in DOMAIN DefaultCatalog, confirmed \in BOOLEAN :
        /\ NextRequestId <= MaxPoolRequests
        /\ DirectExecute(tool, [path |-> "str"], confirmed)
        /\ UNCHANGED agentVars

BatchCall ==
    \E tool \in DOMAIN DefaultCatalog \cup {UnknownName}, confirmed \in BOOLEAN :
        /\ NextRequestId <= MaxPoolRequests
        /\ execute_batch(tool, [path |-> "str"], confirmed)
        /\ UNCHANGED agentVars

PoolNext ==
    \/ PoolCall
    \/ BatchCall
    \/ CallAgain
    \/ PoolStart
    \/ PoolFinish
    \/ ResultReturn
    \/ ResultTimeout

PoolSpec == PoolInit /\ [][PoolNext]_vars

\* --- AgentOrchestrator.__init__ with the tool server of get_tool_server(): the
\* catalog of tools/registry.py, no callbacks; then one call of process.
AgentInit ==
    /\ tools = DefaultCatalog
    /\ ServerIdle
    /\ AgentIdle

\* set_callbacks(confirmation_handler=...) as create_agent calls it.
SetCallbacks == \E handler \in BOOLEAN : set_callbacks("none", handler)

ModelCall == \E reply \in LLMReplies, fails \in BOOLEAN : LLMCall(reply, fails)

ToolReturned == \E fails \in BOOLEAN : AfterExecute(fails)

ToolReturnedAgain == \E fails \in BOOLEAN : AfterExecuteAgain(fails)

Approval == \E confirmed \in BOOLEAN : Confirm(confirmed)

AgentNext ==
    \/ SetCallbacks
    \/ ProcessStart
    \/ ModelCall
    \/ ToolReturned
    \/ Approval
    \/ ToolReturnedAgain
    \/ ExecuteRaises
    \/ LoopExit
    \/ PoolStart
    \/ PoolFinish
    \/ ResultReturn
    \/ ResultTimeout

AgentSpec == AgentInit /\ [][AgentNext]_vars

\* The calls process makes return: the model call, the confirmation handler and
\* execute (which waits for the handler at most `timeout` seconds).
\* A session in which process was called before: the conversation holds the
\* PriorMessages messages of the earlier calls (Conversation.add_message keeps
\* every message).
PriorMessages == 19

EarlierConversation ==
    [i \in 1..PriorMessages |->
        Message(IF i % 2 = 1 THEN "user" ELSE "assistant", <<"earlier">>, << >>, << >>)]

LongSessionInit ==
    /\ tools = DefaultCatalog
    /\ ServerIdle
    /\ AgentIdleAfter(EarlierConversation)

LongSessionSpec == LongSessionInit /\ [][AgentNext]_vars

AgentFairSpec == AgentSpec /\ WF_vars(AgentNext)

\* --- a tool server with one tool whose only parameter has one of the declared
\* types of _validate_type or a type that is none of them, called with an
\* argument of each runtime type (bool is a subclass of int in Python).
\* --- execute on the default catalog with handlers that return: every value of
\* ReturnedValues is what some handler run returns.
HandlerReturn ==
    \E r \in DOMAIN requests, outcome \in ReturnedValues :
        WorkerFinish(r, outcome) /\ UNCHANGED agentVars

ReturnNext ==
    \/ PoolCall
    \/ PoolStart
    \/ HandlerReturn
    \/ ResultReturn
    \/ ResultTimeout

ReturnSpec == PoolInit /\ [][ReturnNext]_vars

DeclaredTypes == TypeMapKeys \cup {"any"}

RuntimeTypes == {"str", "int", "float", "bool", "list", "dict", "NoneType"}

TypedInit ==
    /\ \E type \in DeclaredTypes :
           tools = [n \in {"process_info"} |->
                       [schema |-> [name |-> n,
                                    parameters |-> << Param("pid", type, TRUE, None) >>,
                                    requires_confirmation |-> FALSE,
                                    permission_tier |-> "OPERATOR"],
                        enabled |-> TRUE]]
    /\ ServerIdle
    /\ AgentIdle

TypedCall ==
    \E value \in RuntimeTypes :
        /\ NextRequestId <= MaxRequests
        /\ DirectExecute("process_info", [pid |-> value], FALSE)
        /\ UNCHANGED agentVars

TypedNext ==
    \/ TypedCall
    \/ PoolStart
    \/ PoolFinish
    \/ ResultReturn
    \/ ResultTimeout

TypedSpec == TypedInit /\ [][TypedNext]_vars

\* --- the agent of ui/cli.py and ui/gui.py: create_agent installed the
\* confirmation handler (agent.py 312-313); the program then calls set_callbacks
\* with its three observers and without confirmation_handler (cli.py 105-109,
\* gui.py 50-57) and calls process.
CreatedAgentInit ==
    /\ tools = DefaultCatalog
    /\ ServerIdle
    /\ pc = "idle"
    /\ iterations = 0
    /\ llm_calls = 0
    /\ messages = << >>
    /\ conversation = << >>
    /\ tool_request = 0
    /\ final_response = << >>
    /\ confirmation_handler = TRUE
    /\ approvals = [r \in {} |-> None]
    /\ raised = "none"
    /\ on_event = "none"
    /\ last_reply = "none"
    /\ llm_tools = get_tool_schemas
    /\ chat_content = << >>
    /\ chat_tool_calls = << >>

InitializeAgent == set_callbacks("callable", FALSE)

UiNext ==
    \/ InitializeAgent
    \/ ProcessStart
    \/ ModelCall
    \/ ToolReturned
    \/ Approval
    \/ ToolReturnedAgain
    \/ ExecuteRaises
    \/ LoopExit
    \/ PoolStart
    \/ PoolFinish
    \/ ResultReturn
    \/ ResultTimeout

UiSpec == CreatedAgentInit /\ [][UiNext]_vars

\* --- a session around one call of process: before the call the embedding
\* program installs callbacks (set_callbacks as ui/cli.py and ui/gui.py call it)
\* and enables or disables tools of the agent's tool server.
InstallCallbacks ==
    \E observers \in ObserverSettings, handler \in BOOLEAN :
        set_callbacks(observers, handler)

SessionDisable ==
    \E name \in DOMAIN DefaultCatalog :
        pc = "idle" /\ disable_tool(name) /\ UNCHANGED agentVars

SessionEnable ==
    \E name \in DOMAIN DefaultCatalog :
        pc = "idle" /\ enable_tool(name) /\ UNCHANGED agentVars

SessionNext ==
    \/ InstallCallbacks
    \/ SessionDisable
    \/ SessionEnable
    \/ ProcessStart
    \/ ModelCall
    \/ ToolReturned
    \/ Approval
    \/ ToolReturnedAgain
    \/ ExecuteRaises
    \/ LoopExit
    \/ PoolStart
    \/ PoolFinish
    \/ ResultReturn
    \/ ResultTimeout

SessionSpec == AgentInit /\ [][SessionNext]_vars

\* ------------------------------------------------------------ properties
\* execute(requests'[r]) is called in this step.
Called(r) == r \in DOMAIN attempts' /\ attempts'[r] > Get(attempts, r, 0)

\* The request names a registered action that requires confirmation and does
\* not carry confirmed = True.
Unconfirmed(request) ==
    /\ request.tool \in DOMAIN tools
    /\ tools[request.tool].schema.requires_confirmation
    /\ ~request.confirmed

\* The handler of request r has not been submitted to the pool by the call.
NotSubmitted(r) ==
    /\ invoked'[r] = 0
    /\ futures'[r] = "none"
    /\ calls'[r] = "returned"
    /\ work_queue' = work_queue

\* C1 as stated: every execute call on a registered action that requires
\* confirmation, with a request that is not confirmed, returns
\* confirmation_required and the handler has been invoked zero times.
C1_EveryUnconfirmedCallAsksForConfirmation ==
    [][\A r \in DOMAIN attempts' :
          (Called(r) /\ Unconfirmed(requests'[r])) =>
              /\ results'[r].status = "confirmation_required"
              /\ invoked'[r] = 0]_vars

\* C1 amended: an unconfirmed execute call on an action that requires
\* confirmation never submits the handler; it returns confirmation_required
\* when the request passes validation and failed when it does not.
C1_UnconfirmedCallNeverRunsHandler ==
    [][\A r \in DOMAIN attempts' :
          (Called(r) /\ Unconfirmed(requests'[r])) =>
              /\ NotSubmitted(r)
              /\ results'[r].status =
                     IF validate_request(requests'[r]).valid
                     THEN "confirmation_required" ELSE "failed"]_vars

C1_Witness ==
    \E r \in DOMAIN results :
        /\ Unconfirmed(requests[r])
        /\ attempts[r] = 1
        /\ calls[r] = "returned"
        /\ results[r].status = "confirmation_required"
        /\ invoked[r] = 0
        /\ futures[r] = "none"

\* C3 as stated: a handler is submitted to the pool only for an action whose
\* tier is at or below the runtime tier in the order
\* observer < operator < administrator < system, whatever tier
\* set_permission_tier has set.
C3_HandlerOnlyAtOrBelowRuntimeTier ==
    [][\A r \in DOMAIN futures' :
          (futures'[r] = "pending" /\ Get(futures, r, "none") # "pending") =>
              TierRank(tools[requests'[r].tool].schema.permission_tier)
                  <= TierRank(permission_tier)]_vars

\* C4 as stated: an execute call on an enabled administrator-tier action is
\* answered with permission_denied while the runtime tier is operator, and is
\* not refused for its tier while the runtime tier is administrator or system.
C4_AdministratorActionDeniedAtOperator ==
    [][\A r \in DOMAIN attempts' :
          (/\ Called(r)
           /\ requests'[r].tool \in DOMAIN tools
           /\ tools[requests'[r].tool].enabled
           /\ tools[requests'[r].tool].schema.permission_tier = "ADMINISTRATOR") =>
              /\ permission_tier = "OPERATOR" =>
                     results'[r].status = "permission_denied"
              /\ permission_tier \in {"ADMINISTRATOR", "SYSTEM"} =>
                     results'[r].error #
                         <<"Insufficient permissions for tool: ", requests'[r].tool>>]_vars

\* C10: an execute call that names a tool that is not registered returns
\* failed with an error message that contains the name, and no handler is
\* submitted.
C10_UnknownToolFails ==
    [][\A r \in DOMAIN attempts' :
          (Called(r) /\ requests'[r].tool \notin DOMAIN tools) =>
              /\ results'[r].status = "failed"
              /\ \E i \in 1..Len(results'[r].error) :
                     results'[r].error[i] = requests'[r].tool
              /\ NotSubmitted(r)]_vars

C10_Witness ==
    \E r \in DOMAIN results :
        /\ requests[r].tool = UnknownName
        /\ calls[r] = "returned"
        /\ results[r] = ToolResult(r, "failed", NoPayload, <<"Unknown tool: ", UnknownName>>)
        /\ invoked[r] = 0
        /\ futures[r] = "none"

\* The positions of the conversation's tool messages that hold a result of
\* request r; messages[i] is what the model is sent for conversation[i].
ToolMessages(r) ==
    { i \in 1..Len(conversation) :
        /\ conversation[i].role = "tool"
        /\ conversation[i].tool_results[1].request_id = r }

FedBack(i, text) ==
    /\ i <= Len(messages)
    /\ messages[i] = LLMMessage("user", <<"[Tool Result] ">> \o text \o
           <<" Please continue with the task or provide a summary if complete.">>)

\* C2 as stated: once the execute call that resubmits a request with
\* confirmed = True has returned, the handler has been invoked exactly once.
C2_ResubmissionInvokesHandlerExactlyOnce ==
    \A r \in DOMAIN requests :
        (attempts[r] = 2 /\ calls[r] = "returned") => invoked[r] = 1

\* C2 amended: the resubmitted request passes the confirmation gate and its
\* handler is invoked at most once; exactly once whenever the call returns what
\* the handler produced, zero times when the resubmission fails validation, and
\* not yet when the call times out while the work item still waits for a worker.
C2_ResubmissionInvokesHandlerAtMostOnce ==
    \A r \in DOMAIN requests :
        (attempts[r] = 2 /\ calls[r] = "returned") =>
            /\ requests[r].confirmed
            /\ results[r].status \in {"success", "failed", "timeout"}
            /\ invoked[r] <= 1
            /\ results[r].status = "success" => invoked[r] = 1
            /\ futures[r] \in HandlerOutcomes \cup {"running"} => invoked[r] = 1
            /\ futures[r] = "none" => invoked[r] = 0 /\ results[r].status = "failed"
            /\ futures[r] = "pending" =>
                   /\ invoked[r] = 0
                   /\ results[r].status = "timeout"
                   /\ \E i \in 1..Len(work_queue) : work_queue[i] = r

C2_Witness ==
    \E r \in DOMAIN approvals :
        /\ approvals[r] = <<TRUE>>
        /\ attempts[r] = 2
        /\ calls[r] = "returned"
        /\ results[r].status = "success"
        /\ invoked[r] = 1
        /\ ToolMessages(r) # {}

\* C5: process makes at most max_iterations model calls, and a call of process
\* that has started returns.
C5_ProcessTerminatesWithinBudget ==
    /\ [](llm_calls <= max_iterations /\ iterations <= max_iterations)
    /\ (pc # "idle") ~> (pc = "done")

C5_Witness ==
    /\ pc = "done"
    /\ llm_calls = max_iterations
    /\ final_response = << >>
    /\ Len(conversation) = 1 + 2 * max_iterations

\* C6: when the confirmation handler answers False, the action's handler is
\* never invoked for that request, the confirmation handler is called once for
\* it, and the result stored for the turn and sent to the model is cancelled.
C6_DeniedRequestIsCancelled ==
    \A r \in DOMAIN approvals :
        (approvals[r] # << >> /\ ~approvals[r][1]) =>
            /\ Len(approvals[r]) = 1
            /\ attempts[r] = 1
            /\ invoked[r] = 0
            /\ futures[r] = "none"
            /\ \A i \in ToolMessages(r) :
                   /\ conversation[i].tool_results[1].status = "cancelled"
                   /\ conversation[i].content = <<"User cancelled this operation.">>
                   /\ FedBack(i, <<"User cancelled this operation.">>)
            /\ (pc # "confirm" \/ tool_request # r) => Cardinality(ToolMessages(r)) = 1

C6_Witness ==
    \E r \in DOMAIN approvals :
        /\ approvals[r] = <<FALSE>>
        /\ \E i \in ToolMessages(r) :
               conversation[i].tool_results[1].status = "cancelled"
        /\ pc = "done"

C8_NoHandlerMeansDeny ==
    ~confirmation_handler =>
        \A r \in DOMAIN requests :
            (/\ requests[r].tool \in DOMAIN tools
             /\ tools[requests[r].tool].schema.requires_confirmation) =>
                /\ invoked[r] = 0
                /\ futures[r] = "none"
                /\ ~requests[r].confirmed

C8_Witness ==
    /\ ~confirmation_handler
    /\ pc = "done"
    /\ \E r \in DOMAIN requests :
           /\ requests[r].tool = "file_delete"
           /\ results[r].status = "confirmation_required"
           /\ ToolMessages(r) # {}
           /\ invoked[r] = 0

\* C9: the handler of a request that passed validation and the confirmation
\* gate is invoked at most once, whether the call succeeds, fails or times out;
\* a work item is never queued again.
C9_HandlerInvokedAtMostOnce ==
    \A r \in DOMAIN requests :
        /\ invoked[r] <= 1
        /\ Cardinality({ i \in 1..Len(work_queue) : work_queue[i] = r }) <= 1
        /\ (\E i \in 1..Len(work_queue) : work_queue[i] = r) <=> futures[r] = "pending"
        /\ invoked[r] = 1 <=> futures[r] \in HandlerOutcomes \cup {"running"}
        /\ r \in running <=> futures[r] = "running"

C9_Witness ==
    \E r \in DOMAIN requests :
        /\ calls[r] = "returned"
        /\ results[r].status = "timeout"
        /\ futures[r] = "exception"
        /\ invoked[r] = 1
        /\ \E q \in DOMAIN requests : q > r /\ results[q].status = "success"

\* C11 as stated: when the handler of a waiting execute call has raised a
\* fault, the call returns a failed result whose error is the fault's message;
\* the fault does not leave execute.
C11_HandlerFaultBecomesFailed ==
    [][\A r \in DOMAIN calls :
          (/\ calls[r] = "waiting"
           /\ futures[r] \in {"exception", "timeout_error", "base_exception"}
           /\ calls'[r] # "waiting") =>
              /\ calls'[r] = "returned"
              /\ results'[r] = ToolResult(r, "failed", NoPayload, FaultMessage)]_vars

\* C12: when execute stops waiting for a handler that has not completed, it
\* returns status timeout, and every timeout result reports an
\* execution_time_ms of at least the configured timeout (seconds, in ms).
C12_TimeoutReportsAtLeastTimeout ==
    [][\A r \in DOMAIN calls :
          /\ (/\ calls[r] = "waiting"
              /\ futures[r] \in {"pending", "running"}
              /\ calls'[r] # "waiting") =>
                 /\ calls'[r] = "returned"
                 /\ results'[r].status = "timeout"
                 /\ futures'[r] = futures[r]
          /\ (calls[r] = "waiting" /\ results'[r].status = "timeout") =>
                 execution_time_ms'[r] >= timeout * 1000]_vars

C12_Witness ==
    \E r \in DOMAIN results :
        /\ calls[r] = "returned"
        /\ results[r].status = "timeout"
        /\ futures[r] = "running"
        /\ execution_time_ms[r] = 30000

\* C13: when self.llm.chat raises in an iteration of process, the loop stops:
\* no further model call and no further execute call is made, nothing is
\* raised to the caller, and process returns a non-empty error message, which
\* is also the last message stored in the conversation.
C13_GatewayErrorEndsWithMessage ==
    /\ [](last_reply = "error" =>
            /\ pc = "done"
            /\ raised = "none"
            /\ Len(final_response) = 2
            /\ final_response[1] = "I encountered an error communicating with the AI model: "
            /\ final_response[2] \in LLMErrors
            /\ conversation[Len(conversation)] =
                   Message("assistant", final_response, << >>, << >>))
    /\ [][last_reply = "error" =>
            /\ pc' = pc
            /\ llm_calls' = llm_calls
            /\ attempts' = attempts
            /\ requests' = requests
            /\ final_response' = final_response]_vars

C13_Witness ==
    /\ last_reply = "error"
    /\ pc = "done"
    /\ llm_calls = 2
    /\ final_response[2] = "LLM request timed out"
    /\ \E r \in DOMAIN results : results[r].status = "success"

\* C14 as stated: every terminal result execute has returned (success, failed,
\* timeout, permission_denied) is an entry of the execution history, and the
\* history holds nothing but results execute returned.
C14_EveryTerminalResultInHistory ==
    /\ \A r \in DOMAIN results :
           (/\ calls[r] = "returned"
            /\ results[r].status \in {"success", "failed", "timeout", "permission_denied"}) =>
               \E i \in 1..Len(get_execution_history(100)) :
                   get_execution_history(100)[i] = results[r]
    /\ \A i \in 1..Len(get_execution_history(100)) :
           \E r \in DOMAIN results : get_execution_history(100)[i] = results[r]

\* C15 as stated: register_tool on a name that is already registered is
\* refused: the entry stored under a registered name (schema, handler,
\* enabled flag) changes only by enable_tool / disable_tool toggling its flag.
C15_DuplicateRegistrationRejected ==
    [][\A n \in DOMAIN tools :
          /\ n \in DOMAIN tools'
          /\ tools'[n] # tools[n] =>
                 tools'[n] = [tools[n] EXCEPT !.enabled = ~tools[n].enabled]]_vars

\* C16 as stated: once a descriptor is registered, get_tool_schema of its name
\* returns exactly that descriptor after every later register, enable and
\* disable operation; a name that was never registered gives None.
C16_LookupReturnsRegisteredDescriptor ==
    /\ [][\A n \in ToolNames :
            get_tool_schema(n) # << >> => get_tool_schema(n)' = get_tool_schema(n)]_vars
    /\ [](get_tool_schema(UnknownName) = << >>)

\* C17 as stated: a disabled tool is in none of the schemas sent to the model
\* with a model call, and an execute call on it returns failed without
\* submitting its handler.
C17_DisabledToolInvisible ==
    /\ [][llm_calls' = llm_calls + 1 =>
            \A schema \in llm_tools : tools[schema.name].enabled]_vars
    /\ [][\A r \in DOMAIN attempts' :
            (/\ Called(r)
             /\ requests'[r].tool \in DOMAIN tools
             /\ ~tools[requests'[r].tool].enabled) =>
                /\ results'[r].status = "failed"
                /\ NotSubmitted(r)]_vars

\* C19 as stated: whatever the observability callbacks do, a tool call the
\* model proposes is handed to execute, and no exception of a callback leaves
\* process (the only exception that may leave it is a handler fault that
\* execute let through).
C19_CallbacksNeverAlterControlFlow ==
    [][/\ (llm_calls' = llm_calls + 1 /\ last_reply' = "tool_call") => pc' = "execute"
       /\ raised' # raised => raised' = "handler"]_vars

\* The checks of validation a request fails, each taken on its own:
\* 1 the tool exists and is enabled, 2 the tier comparison of line 100,
\* 3 the required parameters, 4 the argument types.
FailedChecks(request) ==
    IF request.tool \notin DOMAIN tools THEN {1}
    ELSE LET tool == tools[request.tool]
             params == tool.schema.parameters
         IN  { c \in 1..4 :
                 \/ c = 1 /\ ~tool.enabled
                 \/ c = 2 /\ StrGreater(TierValue(tool.schema.permission_tier),
                                        TierValue(permission_tier))
                 \/ c = 3 /\ \E i \in 1..Len(params) :
                                 /\ params[i].required
                                 /\ params[i].default = None
                                 /\ params[i].name \notin DOMAIN request.arguments
                 \/ c = 4 /\ \E i \in 1..Len(params) :
                                 /\ params[i].name \in DOMAIN request.arguments
                                 /\ ~IsInstance(request.arguments[params[i].name],
                                                params[i].type) }

\* The check an error message of validation belongs to.
CheckOfError(error) ==
    CASE error[1] \in {"Unknown tool: ", "Tool is disabled: "} -> 1
      [] error[1] = "Insufficient permissions for tool: " -> 2
      [] error[1] = "Missing required parameter: " -> 3
      [] error[1] = "Invalid type for " -> 4
      [] OTHER -> 0

\* C18: an execute call whose request fails one or more checks of validation
\* returns failed with the message of the first failing check in the order
\* exists and enabled, tier, required parameters, argument types; the handler
\* is not submitted and, also for a tool that requires confirmation, the result
\* is not confirmation_required. A request that fails no check is not refused
\* by validation.
C18_FirstFailingCheckIsReported ==
    [][\A r \in DOMAIN attempts' :
          Called(r) =>
              IF FailedChecks(requests'[r]) # {}
              THEN /\ results'[r].status = "failed"
                   /\ CheckOfError(results'[r].error) = SetMin(FailedChecks(requests'[r]))
                   /\ NotSubmitted(r)
              ELSE \/ calls'[r] = "waiting" /\ futures'[r] = "pending"
                   \/ /\ results'[r].status = "confirmation_required"
                      /\ NotSubmitted(r)]_vars

C18_Witness ==
    \E r \in DOMAIN results :
        /\ requests[r].arguments = [recursive |-> "str"]
        /\ ~requests[r].confirmed
        /\ requests[r].tool \in DOMAIN tools
        /\ tools[requests[r].tool].schema.requires_confirmation
        /\ results[r] = ToolResult(r, "failed", NoPayload,
                                   <<"Missing required parameter: ", "path">>)
        /\ invoked[r] = 0

\* One OllamaClient: replies arrive one after the other and each is parsed.
ReplyArrives == \E text \in Texts : chat(text)

ChatNext == ReplyArrives

ChatSpec == AgentInit /\ [][ChatNext]_vars

\* The strategy that looks at the place of a segment first.
StrategyOf(wrapper) ==
    CASE wrapper = "delimiters" -> 1
      [] wrapper = "json_fence" -> 2
      [] wrapper = "fence" -> 3
      [] wrapper = "bare" -> 4

\* The request a valid action object of a segment stands for.
RequestOf(segment) ==
    ToolRequest(0, segment.name,
                CASE segment.kind \in {"flat", "confirmed"} -> << LBrace, RBrace >>
                  [] segment.kind = "nested" -> << LBrace, ThoughtPair, RBrace >>
                  [] segment.kind = "brace_in_string" ->
                        << LBrace, StringOpen, RBrace, StringClose, RBrace >>,
                FALSE)

\* C20: when the text of a reply holds two valid action objects in places of
\* different strategies, in either order, the request extracted is the one of
\* the object in the place of the higher-priority strategy.
C20_HighestPriorityStrategyWins ==
    \A high, low \in ActionSegments :
        ( /\ StrategyOf(high.wrapper) < StrategyOf(low.wrapper)
          /\ chat_content \in { Render(<< high, low >>), Render(<< low, high >>) } )
            => chat_tool_calls = << RequestOf(high) >>

\* The same for objects whose strings hold no brace.
C20_HoldsWithoutBracesInStrings ==
    \A high, low \in ActionSegments :
        ( /\ StrategyOf(high.wrapper) < StrategyOf(low.wrapper)
          /\ high.kind # "brace_in_string"
          /\ chat_content \in { Render(<< high, low >>), Render(<< low, high >>) } )
            => chat_tool_calls = << RequestOf(high) >>

\* The complete objects a fenced block is filled with.
CompleteObjects ==
    { s \in Segments : s.wrapper = "bare" /\ s.kind \in ActionKinds \cup {"no_tool", "unparseable"} }

\* C21: for a text that is one fenced block holding two complete objects one
\* after the other, the request extracted is the one of the leftmost object
\* that parses and has the key "tool": the first one when it is a valid action
\* object, the second one when the first lacks the key or does not parse.
C21_LeftmostValidObjectWins ==
    \A wrapper \in {"json_fence", "fence"}, first, second \in CompleteObjects :
        chat_content = Wrap(wrapper, Render(<< first, second >>)) =>
            /\ first.kind \in ActionKinds => chat_tool_calls = << RequestOf(first) >>
            /\ (first.kind \notin ActionKinds /\ second.kind \in ActionKinds) =>
                   chat_tool_calls = << RequestOf(second) >>

\* The same for objects whose strings hold no brace.
C21_HoldsWithoutBracesInStrings ==
    \A wrapper \in {"json_fence", "fence"}, first, second \in CompleteObjects :
        ( /\ chat_content = Wrap(wrapper, Render(<< first, second >>))
          /\ "brace_in_string" \notin {first.kind, second.kind} ) =>
            /\ first.kind \in ActionKinds => chat_tool_calls = << RequestOf(first) >>
            /\ (first.kind \notin ActionKinds /\ second.kind \in ActionKinds) =>
                   chat_tool_calls = << RequestOf(second) >>

\* The handler invocations of all requests together.
RECURSIVE InvokedUpTo(_)
InvokedUpTo(r) ==
    IF r = 0 THEN 0
    ELSE (IF r \in DOMAIN invoked THEN invoked[r] ELSE 0) + InvokedUpTo(r - 1)

\* C22: within one process call every model call creates at most one request,
\* a model call is made only when no execute call is waiting for its handler,
\* and the handlers were entered at most as often as the model was called. (A
\* handler whose execute call timed out may still be queued or running when the
\* next model call is made.)
C22_OneActionPerTurn ==
    /\ [](Cardinality(DOMAIN requests) <= llm_calls)
    /\ [](InvokedUpTo(Cardinality(DOMAIN requests)) <= llm_calls)
    /\ [][llm_calls' = llm_calls + 1 =>
              \A r \in DOMAIN calls : calls[r] # "waiting"]_vars

C22_Witness ==
    /\ llm_calls = 2
    /\ \E r \in DOMAIN results :
           /\ results[r].status = "timeout"
           /\ r \in running
           /\ invoked[r] = 1
    /\ InvokedUpTo(Cardinality(DOMAIN requests)) = 2

\* C22 as stated, with the handler counted as the execution in flight: no
\* model call is made while a handler is queued or running.
C22_NoModelCallWhileHandlerInFlight ==
    [][llm_calls' = llm_calls + 1 => (running = {} /\ work_queue = << >>)]_vars

\* C23: at every model call of process the list of messages sent to the model
\* holds at most the last 20 messages.
C23_ModelSeesBoundedWindow ==
    [][llm_calls' = llm_calls + 1 => Len(messages) <= window]_vars

\* The final answer expected for each reply without an action request: the
\* text without its structured blocks, or the filler.
ExpectedAnswer(text) ==
    CASE text = << Prose >> -> << Prose >>
      [] text = << ShortProse >> -> <<"Done!">>
      [] text = << Fence, JsonTag, LBrace, ThoughtPair, RBrace, Fence >> -> <<"Done!">>
      [] text = << Prose, PythonStart, LBrace, ThoughtPair, RBrace, PythonEnd >> ->
             << Prose >>
      [] OTHER -> << >>

\* C24: a model call answered by a reply without an action request ends the
\* loop; the final response is not empty, it is the reply without its
\* structured blocks, or "Done!" when nothing or less than 5 characters are
\* left, and it is appended to the conversation as the last assistant message.
C24_TextReplyIsFinalAnswer ==
    [][(llm_calls' = llm_calls + 1 /\ last_reply' = "text") =>
          /\ pc' = "done"
          /\ final_response' # << >>
          /\ final_response' = ExpectedAnswer(chat_content')
          /\ conversation' =
                 Append(conversation, Message("assistant", final_response', << >>, << >>))
          /\ UNCHANGED << requests, invoked >>]_vars

C24_Witness ==
    /\ pc = "done"
    /\ last_reply = "text"
    /\ chat_content = << Prose, PythonStart, LBrace, ThoughtPair, RBrace, PythonEnd >>
    /\ final_response = << Prose >>
    /\ conversation[Len(conversation)] = Message("assistant", << Prose >>, << >>, << >>)

\* The conversation holds, from message `from` on, one assistant message with
\* a tool call followed by one tool message per executed turn.
TurnsStored(from) ==
    \A i \in from..Len(conversation) :
        IF (i - from) % 2 = 0
        THEN /\ conversation[i].role = "assistant"
             /\ Len(conversation[i].tool_calls) = 1
             /\ i < Len(conversation)
        ELSE /\ conversation[i].role = "tool"
             /\ Len(conversation[i].tool_results) = 1

\* C25: when the loop of process ends because the budget is used up (every
\* reply proposed an action), max_iterations iterations were made, the final
\* response is the empty string, nothing is appended to the conversation and
\* nothing is emitted; the conversation holds the user message and the
\* assistant and tool messages of the max_iterations turns.
C25_BudgetExhaustedReturnsEmpty ==
    [][(pc = "loop" /\ pc' = "done" /\ llm_calls' = llm_calls) =>
          /\ iterations = max_iterations
          /\ llm_calls = max_iterations
          /\ final_response' = << >>
          /\ conversation' = conversation
          /\ raised' = "none"
          /\ Len(conversation) = 1 + 2 * max_iterations
          /\ conversation[1].role = "user"
          /\ TurnsStored(2)]_vars

C25_Witness ==
    /\ pc = "done"
    /\ last_reply = "tool_call"
    /\ raised = "none"
    /\ llm_calls = max_iterations
    /\ final_response = << >>
    /\ Len(conversation) = 1 + 2 * max_iterations
    /\ conversation[Len(conversation)].role = "tool"

\* The execute call on r has returned timeout.
TimedOut(r) ==
    /\ r \in DOMAIN results
    /\ calls[r] = "returned"
    /\ results[r].status = "timeout"

\* C26: the handler of a request whose execute call returned timeout is not
\* cancelled and is entered at most once; when it starts or ends after the
\* return, the result returned, the history and the number of execute calls
\* stay as they are and the work item is not queued again.
C26_TimeoutIsCooperative ==
    /\ [](\A r \in DOMAIN invoked : invoked[r] <= 1)
    /\ [][\A r \in DOMAIN results :
              (TimedOut(r) /\ futures'[r] # futures[r]) =>
                  /\ results' = results
                  /\ execution_history' = execution_history
                  /\ attempts' = attempts
                  /\ calls' = calls
                  /\ \/ futures[r] = "pending" /\ futures'[r] = "running"
                        /\ invoked'[r] = 1
                     \/ futures[r] = "running" /\ futures'[r] \in HandlerOutcomes
                        /\ invoked'[r] = 1
                        /\ work_queue' = work_queue]_vars

C26_Witness ==
    \E r, q \in DOMAIN results :
        /\ TimedOut(r)
        /\ futures[r] \in HandlerOutcomes
        /\ invoked[r] = 1
        /\ \A i \in 1..Len(execution_history) : execution_history[i].request_id # r
        /\ TimedOut(q)
        /\ futures[q] = "pending"
        /\ invoked[q] = 0

\* C27: the set_callbacks call of the user interfaces, which passes no
\* confirmation_handler, leaves the orchestrator without the handler
\* create_agent installed; from then on process asks nobody for approval and
\* the handler of a tool that requires confirmation is never entered.
C27_SetCallbacksRemovesConfirmationHandler ==
    /\ [][on_event' # on_event => (confirmation_handler /\ ~confirmation_handler')]_vars
    /\ [](on_event = "callable" =>
             /\ ~confirmation_handler
             /\ pc # "confirm"
             /\ \A r \in DOMAIN requests :
                    /\ approvals[r] = << >>
                    /\ Unconfirmed(requests[r]) => invoked[r] = 0
                    /\ ~requests[r].confirmed)

C27_Witness ==
    /\ on_event = "callable"
    /\ ~confirmation_handler
    /\ pc = "loop"
    /\ \E r \in DOMAIN results :
           /\ Unconfirmed(requests[r])
           /\ results[r].status = "confirmation_required"
           /\ approvals[r] = << >>
           /\ invoked[r] = 0
           /\ conversation[Len(conversation)].tool_results = << results[r] >>

\* C28: within process the handler of a tool that requires confirmation is
\* entered only for a request the confirmation handler answered True for; the
\* request chat returns for a reply, and the request process hands to execute
\* first, are unconfirmed and have no approval yet.
C28_InvocationNeedsOwnApproval ==
    /\ [](\A r \in DOMAIN requests :
             ( /\ requests[r].tool \in DOMAIN tools
               /\ tools[requests[r].tool].schema.requires_confirmation
               /\ invoked[r] > 0 ) => approvals[r] = << TRUE >>)
    /\ [](\A i \in 1..Len(chat_tool_calls) : ~chat_tool_calls[i].confirmed)
    /\ [][\A r \in DOMAIN requests' \ DOMAIN requests :
              ~requests'[r].confirmed /\ approvals'[r] = << >>]_vars
    /\ [][\A r \in DOMAIN requests :
              (approvals'[r] # approvals[r] \/ requests'[r] # requests[r])
                  => r = tool_request]_vars

C28_Witness ==
    \E r, q \in DOMAIN requests :
        /\ r < q
        /\ requests[r].tool = "file_delete"
        /\ approvals[r] = << TRUE >>
        /\ invoked[r] = 1
        /\ requests[q].tool = "file_delete"
        /\ ~requests[q].confirmed
        /\ approvals[q] = << >>
        /\ results[q].status = "confirmation_required"
        /\ invoked[q] = 0

\* A request extracted from a reply is unconfirmed, also when the object in the
\* text says "confirmed": true.
C28_ExtractedRequestIsUnconfirmed ==
    \A i \in 1..Len(chat_tool_calls) : ~chat_tool_calls[i].confirmed

\* The runtime types that match a declared primitive type.
MatchingTypes(declared) ==
    CASE declared = "string" -> {"str"}
      [] declared = "integer" -> {"int"}
      [] declared = "number" -> {"int", "float"}
      [] declared = "boolean" -> {"bool"}
      [] declared = "array" -> {"list"}
      [] declared = "object" -> {"dict"}
      [] OTHER -> RuntimeTypes

\* The declared type of the parameter pid of the tool a request names.
DeclaredTypeOf(r) == tools[requests'[r].tool].schema.parameters[1].type

\* C29: an execute call whose argument does not match the declared type of its
\* parameter returns failed and the handler is not submitted; a boolean for an
\* integer or a number parameter is such a mismatch. A matching argument, and
\* any argument for a parameter of an unknown type, is submitted.
C29_MistypedArgumentFails ==
    [][\A r \in DOMAIN attempts' :
          Called(r) =>
              IF requests'[r].arguments.pid \in MatchingTypes(DeclaredTypeOf(r))
              THEN calls'[r] = "waiting" /\ futures'[r] = "pending"
              ELSE /\ results'[r].status = "failed"
                   /\ results'[r].error =
                          <<"Invalid type for ", "pid", ": expected ", DeclaredTypeOf(r)>>
                   /\ NotSubmitted(r)]_vars

\* The same with a boolean taken as a match for integer and number.
C29_HoldsWithBooleanAsInteger ==
    [][\A r \in DOMAIN attempts' :
          Called(r) =>
              IF \/ requests'[r].arguments.pid \in MatchingTypes(DeclaredTypeOf(r))
                 \/ /\ requests'[r].arguments.pid = "bool"
                    /\ DeclaredTypeOf(r) \in {"integer", "number"}
              THEN calls'[r] = "waiting" /\ futures'[r] = "pending"
              ELSE /\ results'[r].status = "failed"
                   /\ results'[r].error =
                          <<"Invalid type for ", "pid", ": expected ", DeclaredTypeOf(r)>>
                   /\ NotSubmitted(r)]_vars

\* The execute call on request r returns in this step what it made of the value
\* its handler returned.
ReturnsHandlerValue(r) ==
    /\ r \in DOMAIN calls
    /\ calls[r] = "waiting"
    /\ calls'[r] = "returned"
    /\ futures[r] \in ReturnedValues

\* The result of request r is what the claim assigns to the returned value.
ClassifiedAs(r, value) ==
    IF ~value.dict
    THEN /\ results'[r].status = "success"
         /\ results'[r].result = value.value
    ELSE IF "error" \in DOMAIN value.entries
    THEN /\ results'[r].status = "failed"
         /\ results'[r].error = value.entries.error
    ELSE /\ results'[r].status = "success"
         /\ results'[r].result =
                IF "result" \in DOMAIN value.entries THEN value.entries.result
                ELSE value.entries
         /\ results'[r].warnings =
                IF "warnings" \in DOMAIN value.entries THEN value.entries.warnings ELSE << >>
         /\ LET given == IF "side_effects" \in DOMAIN value.entries
                         THEN value.entries.side_effects ELSE << >>
            IN /\ Len(results'[r].side_effects) = Len(given)
               /\ \A i \in DOMAIN given : \A field \in DOMAIN given[i] :
                      /\ field \in DOMAIN results'[r].side_effects[i]
                      /\ results'[r].side_effects[i][field] = given[i][field]

\* C30: when the handler returns normally the result is classified by the
\* returned value alone: a mapping with the key error gives failed with that
\* message, any other mapping gives success with its result entry, or the whole
\* mapping when it has none, as payload and its side-effect records and
\* warnings carried over in order, and any value that is no mapping gives
\* success with that value as payload.
C30_ResultClassifiedByReturnedValue ==
    [][\A r \in DOMAIN requests :
          ReturnsHandlerValue(r) => ClassifiedAs(r, Returned(futures[r]))]_vars

\* The same for the returned values whose side-effect records all name their
\* type and carry no key outside the fields of SideEffect.
C30_HoldsForWellFormedRecords ==
    [][\A r \in DOMAIN requests :
          ReturnsHandlerValue(r) /\ ~result_raises(Returned(futures[r]))
              => ClassifiedAs(r, Returned(futures[r]))]_vars

====
